---- MODULE Spec2Model ----
(***************************************************************************)
(* bdpy/mri/roi.py: get_roiflag (the coordinate matcher), add_roimask      *)
(* (volumetric orchestration) and add_roilabel (surface orchestration).    *)
(*                                                                         *)
(* A 3 x n numpy coordinate array is a sequence of n coordinates, each a   *)
(* triple <<x, y, z>> (the columns of the array).  A K x N flag matrix is  *)
(* a sequence of K rows, each a sequence of N numbers.  A raised exception *)
(* is the value of err; "none" is a normal return.                         *)
(***************************************************************************)
EXTENDS Integers, Sequences, FiniteSets, TLC

----------------------------------------------------------------------------
(* Bounds of the model.                                                    *)

\* get_roiflag called directly: axis values 0..MaxCoord, K <= MaxRoi ROI
\* arrays of at most MaxRoiVox coordinates, 1..MaxEpi reference coordinates.
MaxCoord == 1
MaxRoi == 2
MaxRoiVox == 2
MaxEpi == 2

\* add_roimask: voxel grids lie on the x axis at 0..MaxGridX; the container
\* has 1..MaxVoxel voxels, a mask file 1..MaxMaskVoxel voxels with values
\* 0..MaxMaskVal, and a call names at most MaxMask mask files.
MaxGridX == 2
MaxVoxel == 3
MaxMaskVoxel == 2
MaxMaskVal == 2
MaxMask == 2

\* add_roilabel: surfaces of MaxVertex vertices, annotation files of at most
\* MaxRegion named regions, and a call names at most MaxLabel files.
MaxVertex == 2
MaxRegion == 2
MaxLabel == 2

VARIABLES
    call,               \* the function the caller invokes
    pc,                 \* "call": not yet run; "done": returned or raised
    err,                \* "none", or the exception the call raised
    roi_xyz_list,       \* get_roiflag: argument
    epi_xyz_array,      \* get_roiflag: argument
    roi_flag_array,     \* get_roiflag: returned matrix
    roi_mask,           \* add_roimask: argument [kind, val]
    files,              \* the mask or label files on disk, by path stem
    voxel_xyz,          \* add_roimask: the container's voxel coordinates
    mask_v_all,         \* add_roimask: local, the loaded voxel values
    mask_xyz_all,       \* add_roimask: local, the ROI coordinate arrays
    voxel_consistency,  \* add_roimask: local
    roi_flag,           \* add_roimask: local, the membership matrix
    label,              \* add_roilabel: argument [kind, val]
    vertex_data,        \* add_roilabel: argument [kind, val]
    metadata            \* the container's metadata columns, in order

vars == <<call, pc, err, roi_xyz_list, epi_xyz_array, roi_flag_array,
          roi_mask, files, voxel_xyz, mask_v_all, mask_xyz_all,
          voxel_consistency, roi_flag, label, vertex_data, metadata>>

flagVars == <<roi_xyz_list, epi_xyz_array, roi_flag_array>>
maskVars == <<roi_mask, voxel_xyz, mask_v_all, mask_xyz_all,
              voxel_consistency, roi_flag>>
labelVars == <<label, vertex_data>>

----------------------------------------------------------------------------
(* Generic helpers.                                                        *)

Range(s) == {s[i] : i \in DOMAIN s}

SeqsOfLen(S, lo, hi) == UNION {[1..n -> S] : n \in lo..hi}

RECURSIVE SumSeq(_)
SumSeq(s) == IF s = <<>> THEN 0 ELSE Head(s) + SumSeq(Tail(s))

Axes == 1..3

\* The value of an argument or local of a function that is not called.
NoArg == [kind |-> "unused", val |-> <<>>]

----------------------------------------------------------------------------
(* get_roiflag, roi.py lines 71-129.                                       *)

\* np.array_equal(epi_xyz, roi_xyz_array_t[k]) on two coordinate triples.
ArrayEqual(a, b) == \A j \in Axes : a[j] = b[j]

\* min(roi_xyz_list[i][j,:]) and max(...): the builtins, on a non-empty row.
MinVal(roi, j) ==
    CHOOSE m \in {roi[k][j] : k \in DOMAIN roi} : \A k \in DOMAIN roi : m <= roi[k][j]

MaxVal(roi, j) ==
    CHOOSE m \in {roi[k][j] : k \in DOMAIN roi} : \A k \in DOMAIN roi : m >= roi[k][j]

\* RangeList with the bounds of the box excluded (> and < for >= and <=).
RangeListExclusive(roi, epi) ==
    [r \in 1..6 |->
        LET j == (r + 1) \div 2 IN
        [idx \in DOMAIN epi |->
            IF r % 2 = 1
            THEN (IF epi[idx][j] > MinVal(roi, j) THEN 1 ELSE 0)
            ELSE (IF epi[idx][j] < MaxVal(roi, j) THEN 1 ELSE 0)]]

\* range_list: for each axis the int arrays min_range and max_range.
RangeList(roi, epi) ==
    [r \in 1..6 |->
        LET j == (r + 1) \div 2 IN
        [idx \in DOMAIN epi |->
            IF r % 2 = 1
            THEN (IF epi[idx][j] >= MinVal(roi, j) THEN 1 ELSE 0)
            ELSE (IF epi[idx][j] <= MaxVal(roi, j) THEN 1 ELSE 0)]]

\* used_index_array = np.sum(range_list, axis=0) == 6, and the indices where
\* it is True (used_epi_index_list).
UsedEpiIndex(roi, epi) ==
    LET range_list == RangeList(roi, epi) IN
    {idx \in DOMAIN epi : SumSeq([r \in 1..6 |-> range_list[r][idx]]) = 6}

\* One row of roi_flag_array: zeros, then 1 at every candidate index whose
\* coordinate equals some ROI coordinate.
RoiFlagRow(roi, epi) ==
    LET used_epi_index_list == UsedEpiIndex(roi, epi) IN
    [idx \in DOMAIN epi |->
        IF /\ idx \in used_epi_index_list
           /\ \E k \in DOMAIN roi : ArrayEqual(epi[idx], roi[k])
        THEN 1 ELSE 0]

\* The whole call.  min() of an empty row raises ValueError, at the first
\* ROI array that has no coordinate; nothing is returned then.
GetRoiflag(roi_list, epi) ==
    IF \E i \in DOMAIN roi_list : Len(roi_list[i]) = 0
    THEN [err |-> "ValueError", roi_flag_array |-> <<>>]
    ELSE [err |-> "none",
          roi_flag_array |-> [i \in DOMAIN roi_list |-> RoiFlagRow(roi_list[i], epi)]]

----------------------------------------------------------------------------
(* The collaborators of roi.py that are not part of it.                    *)

\* load_mri(m): the voxel values and voxel coordinates of mask file m (the
\* third value, mask_ijk, is never read by roi.py).
LoadMri(fs, m) == fs[m.stem]

\* bdata.add_metadata(name, value, ...): the column called name is set to
\* value, in place when the container has it already and as a new last
\* column when not.
AddMetadata(md, name, value) ==
    IF \E c \in DOMAIN md : md[c].name = name
    THEN [c \in DOMAIN md |->
            IF md[c].name = name THEN [name |-> name, value |-> value] ELSE md[c]]
    ELSE Append(md, [name |-> name, value |-> value])

----------------------------------------------------------------------------
(* add_roimask, roi.py lines 13-68.                                        *)

\* roi_prefix='' (line 13).
RoiPrefix == ""

\* if isinstance(roi_mask, str): roi_mask = [roi_mask]  (lines 30-31)
WrapStr(arg) == IF arg.kind = "str" THEN [kind |-> "list", val |-> arg.val] ELSE arg

\* Iterable with an exact test for a list, which turns a tuple or dict away.
IterableListOnly(arg) == arg.kind = "list"

\* `for m in roi_mask` (line 44) iterates a list, a tuple and the keys of a
\* dict alike; on an int or None the for statement raises TypeError.  No
\* other test of the argument's type is made.
Iterable(arg) == arg.kind \in {"list", "tuple", "dict"}

\* InRoi with every nonzero value taken as inside (mask_v != 0).
InRoiNonzero(v) == v # 0

\* mask_v == 1 (line 47): the voxels kept as ROI coordinates.
InRoi(v) == v = 1

\* mask_xyz[:, (mask_v == 1).flatten()] (line 47): the columns of mask_xyz
\* at the kept voxels, in the order of the mask.
RECURSIVE RoiXyz(_, _)
RoiXyz(mask_xyz, mask_v) ==
    IF mask_xyz = <<>> THEN <<>>
    ELSE (IF InRoi(Head(mask_v)) THEN <<Head(mask_xyz)>> ELSE <<>>)
            \o RoiXyz(Tail(mask_xyz), Tail(mask_v))

\* (voxel_xyz == mask_xyz).all() (line 49), on a 3 x N and a 3 x M array.
\* N = M: the elementwise comparison.  N = 1 or M = 1: numpy broadcasts the
\* single column against the others.  Otherwise the shapes do not
\* broadcast: numpy's == gives the plain bool False (the numpy of Python 2,
\* which this file's print statements need), and .all() on a bool raises
\* AttributeError.
GridCompare(a, b) ==
    LET N == Len(a)
        M == Len(b)
    IN  IF N = M
        THEN (IF \A i \in 1..N : \A j \in Axes : a[i][j] = b[i][j] THEN "true" ELSE "false")
        ELSE IF N = 1 \/ M = 1
        THEN (IF \A i \in 1..(IF N = 1 THEN M ELSE N) : \A j \in Axes :
                    a[IF N = 1 THEN 1 ELSE i][j] = b[IF M = 1 THEN 1 ELSE i][j]
              THEN "true" ELSE "false")
        ELSE "raise"

\* The loop of lines 44-50 over the paths left, from the locals acc.
RECURSIVE LoadLoop(_, _, _, _)
LoadLoop(paths, fs, vxyz, acc) ==
    IF paths = <<>> THEN acc
    ELSE LET m == LoadMri(fs, Head(paths))
             cmp == GridCompare(vxyz, m.xyz)
             acc2 == [acc EXCEPT !.mask_v_all = Append(@, m.v),
                                 !.mask_xyz_all = Append(@, RoiXyz(m.xyz, m.v))]
         IN  IF cmp = "raise"
             THEN [acc2 EXCEPT !.err = "AttributeError"]
             ELSE LoadLoop(Tail(paths), fs, vxyz,
                           [acc2 EXCEPT !.voxel_consistency = (@ /\ cmp = "true")])

\* np.vstack(mask_v_all) (line 54): the 1-D arrays as rows; ValueError when
\* there is none or when their lengths differ.
VStack(rows) ==
    IF rows = <<>> \/ \E i, k \in DOMAIN rows : Len(rows[i]) # Len(rows[k])
    THEN [err |-> "ValueError", roi_flag_array |-> <<>>]
    ELSE [err |-> "none", roi_flag_array |-> rows]

\* roi_prefix + '_' + os.path.basename(roi).replace('.nii.gz', '')
\* .replace('.nii', '') (line 60): the path without its image suffix.
RoiName(prefix, roi) == [prefix |-> prefix, hemi |-> "", stem |-> roi.stem, region |-> -1]

\* The loop of lines 59-63 from index i on.
RECURSIVE WriteRows(_, _, _, _)
WriteRows(paths, i, flag, md) ==
    IF i > Len(paths) THEN md
    ELSE WriteRows(paths, i + 1, flag,
                   AddMetadata(md, RoiName(RoiPrefix, paths[i]), flag[i]))

\* The whole call: the locals when it ends, the exception if it raised one,
\* and the container's metadata.
AddRoimask(arg, fs, vxyz, md) ==
    LET wrapped == WrapStr(arg)
        empty == [err |-> "none", mask_v_all |-> <<>>, mask_xyz_all |-> <<>>,
                  voxel_consistency |-> TRUE, roi_flag |-> <<>>, metadata |-> md]
    IN  IF ~Iterable(wrapped) THEN [empty EXCEPT !.err = "TypeError"]
        ELSE LET ld == LoadLoop(wrapped.val, fs, vxyz, empty) IN
             IF ld.err # "none" THEN ld
             ELSE LET fl == IF ld.voxel_consistency
                            THEN VStack(ld.mask_v_all)
                            ELSE GetRoiflag(ld.mask_xyz_all, vxyz)
                  IN  IF fl.err # "none" THEN [ld EXCEPT !.err = fl.err]
                      ELSE [ld EXCEPT !.roi_flag = fl.roi_flag_array,
                                      !.metadata = WriteRows(wrapped.val, 1,
                                                             fl.roi_flag_array, md)]

----------------------------------------------------------------------------
(* add_roilabel, roi.py lines 132-202.                                     *)

\* prefix='' (line 132).
LabelPrefix == ""

\* nibabel.freesurfer.read_label(label): the vertex indices of the label.
ReadLabel(fs, lb) == fs[lb.stem].roi_vertex

\* nibabel.freesurfer.read_annot(lb): labels (annot[0]) and names (annot[2]).
ReadAnnot(fs, lb) == fs[lb.stem]

\* bdata.get_metadata('vertex_index', where=vertex_data).
VertexIndex == [i \in 1..MaxVertex |-> i - 1]

\* os.path.splitext(lb)[1] (lines 171, 174).
SplitExt(lb) == lb.ext

\* marker in vertex_data (lines 190, 192): a substring test when vertex_data
\* is a string, a test for an equal element when it is a list.
Contains(vd, marker) ==
    IF vd.kind = "str"
    THEN \E w \in DOMAIN vd.val[1] : vd.val[1][w] = marker
    ELSE \E e \in DOMAIN vd.val : vd.val[e] = <<marker>>

\* Hemi without the elif branch for 'Right'.
HemiLeftOnly(vd) == IF Contains(vd, "Left") THEN "lh" ELSE "invalid"

\* Lines 190-195; "invalid" stands for the raise of ValueError.
Hemi(vd) ==
    IF Contains(vd, "Left") THEN "lh"
    ELSE IF Contains(vd, "Right") THEN "rh"
    ELSE "invalid"

\* add_roilabel_file (lines 146-165): the flag vector over vertex_index.
LabelFlag(roi_vertex, vindex) ==
    [i \in DOMAIN vindex |-> IF vindex[i] \in roi_vertex THEN 1 ELSE 0]

\* prefix + '_' + os.path.basename(label).replace('.label', '') (line 161).
LabelName(prefix, lb) == [prefix |-> prefix, hemi |-> "", stem |-> lb.stem, region |-> -1]

\* prefix + '_' + hemi + '.' + name (line 197).
AnnotName(prefix, hemi, name) == [prefix |-> prefix, hemi |-> hemi, stem |-> -1, region |-> name]

\* roi_flag = (labels == label_id).astype(int) (line 183).
RegionFlag(labels, label_id) ==
    [v \in DOMAIN labels |-> IF labels[v] = label_id THEN 1 ELSE 0]

\* SkipRegion with the zero-vertex test gone: no region is skipped.
SkipRegionNever(flag) == FALSE

\* if sum(roi_flag) == 0: ... continue (lines 185-187).
SkipRegion(flag) == SumSeq(flag) = 0

\* The loop of lines 181-198 from region i (zero-based) on.
RECURSIVE AnnotLoop(_, _, _, _, _)
AnnotLoop(i, annot, vd, prefix, md) ==
    IF i >= Len(annot.names) THEN [err |-> "none", metadata |-> md]
    ELSE LET name == annot.names[i + 1]
             flag == RegionFlag(annot.labels, i)
         IN  IF SkipRegion(flag) THEN AnnotLoop(i + 1, annot, vd, prefix, md)
             ELSE IF Hemi(vd) = "invalid" THEN [err |-> "ValueError", metadata |-> md]
             ELSE AnnotLoop(i + 1, annot, vd, prefix,
                            AddMetadata(md, AnnotName(prefix, Hemi(vd), name), flag))

\* The loop of lines 170-200 over the paths left.
RECURSIVE LabelLoop(_, _, _, _, _)
LabelLoop(paths, fs, vd, prefix, md) ==
    IF paths = <<>> THEN [err |-> "none", metadata |-> md]
    ELSE LET lb == Head(paths) IN
         IF SplitExt(lb) = ".label"
         THEN LabelLoop(Tail(paths), fs, vd, prefix,
                        AddMetadata(md, LabelName(prefix, lb),
                                    LabelFlag(ReadLabel(fs, lb), VertexIndex)))
         ELSE IF SplitExt(lb) = ".annot"
         THEN LET r == AnnotLoop(0, ReadAnnot(fs, lb), vd, prefix, md) IN
              IF r.err # "none" THEN r
              ELSE LabelLoop(Tail(paths), fs, vd, prefix, r.metadata)
         ELSE [err |-> "TypeError", metadata |-> md]

\* AddRoilabel working on a copy of the container that is dropped when the
\* loop raises: a failing call leaves the metadata as it was.
AddRoilabelOnCopy(arg, fs, vd, md) ==
    LET r == LabelLoop(WrapStr(arg).val, fs, vd, LabelPrefix, md) IN
    IF r.err # "none" THEN [r EXCEPT !.metadata = md] ELSE r

\* The whole call (lines 167-202).
AddRoilabel(arg, fs, vd, md) ==
    LabelLoop(WrapStr(arg).val, fs, vd, LabelPrefix, md)

----------------------------------------------------------------------------
(* Specification of the matcher called on its own.                         *)

Coords == (0..MaxCoord) \X (0..MaxCoord) \X (0..MaxCoord)

InitFlag ==
    /\ call = "get_roiflag"
    /\ pc = "call"
    /\ err = "none"
    /\ roi_xyz_list \in SeqsOfLen(SeqsOfLen(Coords, 0, MaxRoiVox), 1, MaxRoi)
    /\ epi_xyz_array \in SeqsOfLen(Coords, 1, MaxEpi)
    /\ roi_flag_array = <<>>
    /\ roi_mask = NoArg
    /\ files = <<>>
    /\ voxel_xyz = <<>>
    /\ mask_v_all = <<>>
    /\ mask_xyz_all = <<>>
    /\ voxel_consistency = TRUE
    /\ roi_flag = <<>>
    /\ label = NoArg
    /\ vertex_data = NoArg
    /\ metadata = <<>>

CallGetRoiflag ==
    /\ pc = "call"
    /\ call = "get_roiflag"
    /\ LET r == GetRoiflag(roi_xyz_list, epi_xyz_array) IN
        /\ err' = r.err
        /\ roi_flag_array' = r.roi_flag_array
    /\ pc' = "done"
    /\ UNCHANGED <<call, roi_xyz_list, epi_xyz_array, files, maskVars, labelVars, metadata>>

NextFlag == CallGetRoiflag

SpecFlag == InitFlag /\ [][NextFlag]_vars

----------------------------------------------------------------------------
(* Specification of the orchestration calls on a container.                *)

GridCoords == {<<x, 0, 0>> : x \in 0..MaxGridX}

\* Voxel grids hold pairwise distinct coordinates.
Grids(lo, hi) ==
    {g \in SeqsOfLen(GridCoords, lo, hi) : \A i, k \in DOMAIN g : g[i] = g[k] => i = k}

MaskFiles ==
    UNION {{[xyz |-> g, v |-> vals] : vals \in [DOMAIN g -> 0..MaxMaskVal]} :
            g \in Grids(1, MaxMaskVoxel)}

\* The path of the i-th mask file; both image suffixes occur.
MaskPath(i) == [stem |-> i, ext |-> IF i % 2 = 1 THEN ".nii.gz" ELSE ".nii"]

\* val: the path of a str, the elements of a list or tuple, the keys of a
\* dict in the order its iteration gives them.
MaskArgs ==
    {[kind |-> "str", val |-> <<MaskPath(1)>>]}
    \cup {[kind |-> k, val |-> [i \in 1..n |-> MaskPath(i)]] :
            k \in {"list", "tuple", "dict"}, n \in 0..MaxMask}
    \cup {[kind |-> k, val |-> <<>>] : k \in {"int", "None"}}

InitMask ==
    /\ call = "add_roimask"
    /\ pc = "call"
    /\ err = "none"
    /\ roi_xyz_list = <<>>
    /\ epi_xyz_array = <<>>
    /\ roi_flag_array = <<>>
    /\ roi_mask \in MaskArgs
    /\ files \in [1..Len(roi_mask.val) -> MaskFiles]
    /\ voxel_xyz \in Grids(1, MaxVoxel)
    /\ mask_v_all = <<>>
    /\ mask_xyz_all = <<>>
    /\ voxel_consistency = TRUE
    /\ roi_flag = <<>>
    /\ label = NoArg
    /\ vertex_data = NoArg
    /\ metadata = <<>>

CallAddRoimask ==
    /\ pc = "call"
    /\ call = "add_roimask"
    /\ LET r == AddRoimask(roi_mask, files, voxel_xyz, metadata) IN
        /\ err' = r.err
        /\ mask_v_all' = r.mask_v_all
        /\ mask_xyz_all' = r.mask_xyz_all
        /\ voxel_consistency' = r.voxel_consistency
        /\ roi_flag' = r.roi_flag
        /\ metadata' = r.metadata
    /\ pc' = "done"
    /\ UNCHANGED <<call, flagVars, roi_mask, files, voxel_xyz, labelVars>>

\* Destination field names, as the words they are made of, given as a
\* string or as a list of strings (the default is the list ['VertexData']).
VertexDataArgs ==
    {[kind |-> "str", val |-> <<w>>] :
        w \in {<<"Vertex", "Data">>, <<"Vertex", "Left">>, <<"Vertex", "Right">>,
               <<"Left", "Right">>}}
    \cup {[kind |-> "list", val |-> <<w>>] :
        w \in {<<"Vertex", "Data">>, <<"Vertex", "Left">>, <<"Left">>, <<"Right">>}}

LabelFiles ==
    {[ext |-> ".label", roi_vertex |-> rv, labels |-> <<>>, names |-> <<>>] :
        rv \in SUBSET (0..(MaxVertex - 1))}
    \cup UNION {{[ext |-> ".annot", roi_vertex |-> {}, labels |-> lbs,
                  names |-> [i \in 1..m |-> i - 1]] :
                    lbs \in [1..MaxVertex -> (-1)..(m - 1)]} : m \in 0..MaxRegion}
    \cup {[ext |-> ".txt", roi_vertex |-> {}, labels |-> <<>>, names |-> <<>>]}

InitLabel ==
    /\ call = "add_roilabel"
    /\ pc = "call"
    /\ err = "none"
    /\ roi_xyz_list = <<>>
    /\ epi_xyz_array = <<>>
    /\ roi_flag_array = <<>>
    /\ roi_mask = NoArg
    /\ voxel_xyz = <<>>
    /\ mask_v_all = <<>>
    /\ mask_xyz_all = <<>>
    /\ voxel_consistency = TRUE
    /\ roi_flag = <<>>
    /\ \E n \in 0..MaxLabel :
        /\ files \in [1..n -> LabelFiles]
        /\ \E k \in (IF n = 1 THEN {"str", "list"} ELSE {"list"}) :
            label = [kind |-> k, val |-> [i \in 1..n |-> [stem |-> i, ext |-> files[i].ext]]]
    /\ vertex_data \in VertexDataArgs
    /\ metadata = <<>>

CallAddRoilabel ==
    /\ pc = "call"
    /\ call = "add_roilabel"
    /\ LET r == AddRoilabel(label, files, vertex_data, metadata) IN
        /\ err' = r.err
        /\ metadata' = r.metadata
    /\ pc' = "done"
    /\ UNCHANGED <<call, flagVars, files, maskVars, labelVars>>

Init == InitMask \/ InitLabel

Next == CallAddRoimask \/ CallAddRoilabel

Spec == Init /\ [][Next]_vars

----------------------------------------------------------------------------
(* Properties of get_roiflag, under SpecFlag.                             *)

\* The brute-force reference: entry (i, j) is 1 iff R[j] is one of the
\* coordinates of S_i, compared as whole triples, with no pre-filter.
BruteForce(roi_list, epi) ==
    [i \in DOMAIN roi_list |->
        [j \in DOMAIN epi |-> IF epi[j] \in Range(roi_list[i]) THEN 1 ELSE 0]]

AllNonEmpty(roi_list) == \A i \in DOMAIN roi_list : Len(roi_list[i]) >= 1

FlagReturned == call = "get_roiflag" /\ pc = "done"

\* C1: for non-empty ROI coordinate sets get_roiflag returns, without an
\* error, exactly the brute-force matrix: entry (i, j) = 1 iff R[j] equals a
\* coordinate of S_i on all three axes.  The bounding-box filter drops no
\* matching index, and duplicates in S_i change nothing (the reference reads
\* S_i as a set).
ThmC1_MatchesBruteForce ==
    (FlagReturned /\ AllNonEmpty(roi_xyz_list)) =>
        /\ err = "none"
        /\ roi_flag_array = BruteForce(roi_xyz_list, epi_xyz_array)

\* A call with two ROI sets, one of them holding a duplicated coordinate,
\* whose row has both a match and a non-match, and the other row a match on
\* the edge of a bounding box that is not a single point.
WitC1_DuplicateAndMatch ==
    /\ FlagReturned
    /\ err = "none"
    /\ Len(roi_xyz_list) = 2
    /\ \E i \in DOMAIN roi_xyz_list :
        /\ Len(roi_xyz_list[i]) = 2
        /\ roi_xyz_list[i][1] = roi_xyz_list[i][2]
        /\ roi_flag_array[i] = <<1, 0>>
    /\ \E i \in DOMAIN roi_xyz_list :
        /\ Cardinality(Range(roi_xyz_list[i])) = 2
        /\ roi_flag_array[i] = <<0, 1>>

\* C3 (as claimed): an empty ROI coordinate set raises no error and gives an
\* all-zero row, the other rows being computed as usual.
CexC3_EmptyRoiGivesZeroRow ==
    (FlagReturned /\ ~AllNonEmpty(roi_xyz_list)) =>
        /\ err = "none"
        /\ Len(roi_flag_array) = Len(roi_xyz_list)
        /\ \A i \in DOMAIN roi_xyz_list :
            roi_flag_array[i] = BruteForce(roi_xyz_list, epi_xyz_array)[i]

----------------------------------------------------------------------------
(* Properties of add_roimask, under Spec.                                 *)

MaskDone == call = "add_roimask" /\ pc = "done"

\* K, the number of mask files named, and N, the size of the reference grid.
NumMasks == Len(roi_mask.val)
NumVoxels == Len(voxel_xyz)

\* The k-th smallest element of a set of numbers, and the subsequence of s
\* at the indices in S, in increasing order of index.
Kth(S, k) == CHOOSE j \in S : Cardinality({l \in S : l <= j}) = k
SubSeqAt(s, S) == [k \in 1..Cardinality(S) |-> s[Kth(S, k)]]

\* C2 (as claimed): whenever the grid-consistency flag is true, the matrix of
\* the fast path equals what get_roiflag returns for the ROI coordinate sets
\* of the same masks and the same reference grid.
CexC2_FastEqualsSlow ==
    (MaskDone /\ err = "none" /\ voxel_consistency) =>
        LET slow == GetRoiflag(mask_xyz_all, voxel_xyz) IN
        /\ slow.err = "none"
        /\ roi_flag = slow.roi_flag_array

\* C4 (as claimed): the membership matrix of a call that produced one has K
\* rows and N columns and every entry is 0 or 1, on either path.
CexC4_ShapeAndBinary ==
    (MaskDone /\ err = "none") =>
        /\ Len(roi_flag) = NumMasks
        /\ \A i \in DOMAIN roi_flag :
            /\ Len(roi_flag[i]) = NumVoxels
            /\ \A j \in DOMAIN roi_flag[i] : roi_flag[i][j] \in {0, 1}

\* C5 (as claimed): with at least one mask, the rows are the masks' own
\* values iff every mask's coordinate set is the reference grid (length,
\* order and values); otherwise every row is the matcher's row for that
\* mask's ROI coordinates.
CexC5_AllOrNothing ==
    (MaskDone /\ Iterable(WrapStr(roi_mask)) /\ NumMasks >= 1) =>
        /\ err = "none"
        /\ roi_flag =
            IF \A i \in 1..NumMasks : files[i].xyz = voxel_xyz
            THEN [i \in 1..NumMasks |-> files[i].v]
            ELSE BruteForce([i \in 1..NumMasks |-> RoiXyz(files[i].xyz, files[i].v)],
                            voxel_xyz)

\* C6 (as claimed): an argument that is neither a str nor a list makes the
\* call fail and no metadata column is written.  (The claim names the error
\* too; stated here is only that the call raises some error, which the claim
\* implies.)
CexC6_NonListRejected ==
    (MaskDone /\ roi_mask.kind \notin {"str", "list"}) =>
        /\ err # "none"
        /\ metadata = <<>>

\* C6 (amended): an argument that cannot be iterated (a number, None) makes
\* the call raise TypeError before anything is loaded or written; a tuple or
\* a dict of paths is not rejected: it never raises TypeError, and when the
\* call succeeds one column per path was written, holding that path's row.
ThmC6_OnlyNonIterableRejected ==
    MaskDone =>
        /\ roi_mask.kind \in {"int", "None"} =>
            (err = "TypeError" /\ metadata = <<>> /\ roi_flag = <<>> /\ mask_v_all = <<>>)
        /\ roi_mask.kind \in {"tuple", "dict"} =>
            /\ err # "TypeError"
            /\ err = "none" =>
                /\ NumMasks >= 1
                /\ metadata = [i \in 1..NumMasks |->
                                [name |-> [prefix |-> "", hemi |-> "", stem |-> i, region |-> -1],
                                 value |-> roi_flag[i]]]

WitC6_NoneRaisesTypeError ==
    /\ MaskDone
    /\ roi_mask.kind = "None"
    /\ err = "TypeError"
    /\ metadata = <<>>

\* C10 (as claimed): the ROI coordinates kept from each loaded mask are those
\* of its voxels with a nonzero value, in the mask's order.
CexC10_NonzeroKept ==
    MaskDone =>
        \A i \in DOMAIN mask_xyz_all :
            mask_xyz_all[i] =
                SubSeqAt(files[i].xyz, {j \in DOMAIN files[i].v : files[i].v[j] # 0})

\* C10 (amended): the ROI coordinates kept from each loaded mask are those of
\* its voxels whose value equals 1, in the mask's order; a voxel with another
\* nonzero value is outside the ROI.
ThmC10_OnesKept ==
    MaskDone =>
        /\ Iterable(WrapStr(roi_mask)) /\ err # "AttributeError" =>
            Len(mask_xyz_all) = NumMasks
        /\ \A i \in DOMAIN mask_xyz_all :
            mask_xyz_all[i] =
                SubSeqAt(files[i].xyz, {j \in DOMAIN files[i].v : files[i].v[j] = 1})

\* The matcher ran on a mask that has a voxel of value 1 after a voxel of
\* value 2: only the former is an ROI coordinate.
WitC10_TwoIsOutside ==
    /\ MaskDone
    /\ err = "none"
    /\ ~voxel_consistency
    /\ \E i \in DOMAIN mask_xyz_all :
        /\ files[i].v = <<2, 1>>
        /\ mask_xyz_all[i] = <<files[i].xyz[2]>>

----------------------------------------------------------------------------
(* Properties of add_roilabel, under Spec.                                *)

LabelDone == call = "add_roilabel" /\ pc = "done"

NumLabels == Len(label.val)

IsAnnot(i) == files[i].ext = ".annot"
KnownExt(i) == files[i].ext \in {".label", ".annot"}

\* The regions (zero-based ids) of annotation file i that have a vertex.
NonEmptyRegions(i) ==
    {r \in 0..(Len(files[i].names) - 1) : \E v \in DOMAIN files[i].labels : files[i].labels[v] = r}

\* The destination field name holds a hemisphere marker somewhere: as a word
\* of the string, or as a word of an element of the list.
FieldHasMarker ==
    \E e \in DOMAIN vertex_data.val : \E w \in DOMAIN vertex_data.val[e] :
        vertex_data.val[e][w] \in {"Left", "Right"}

\* The hemisphere can be read off vertex_data the way lines 190-193 read it:
\* a marker inside the string, or a list element that is exactly a marker.
MarkerFound ==
    \/ /\ vertex_data.kind = "str"
       /\ \E w \in DOMAIN vertex_data.val[1] : vertex_data.val[1][w] \in {"Left", "Right"}
    \/ /\ vertex_data.kind = "list"
       /\ \E e \in DOMAIN vertex_data.val : vertex_data.val[e] \in {<<"Left">>, <<"Right">>}

LeftFound ==
    \/ /\ vertex_data.kind = "str"
       /\ \E w \in DOMAIN vertex_data.val[1] : vertex_data.val[1][w] = "Left"
    \/ /\ vertex_data.kind = "list"
       /\ \E e \in DOMAIN vertex_data.val : vertex_data.val[e] = <<"Left">>

\* C7 (as claimed), for a call whose first file is an annotation file with a
\* named region (the file is therefore processed): it fails with the invalid-configuration error
\* (ValueError) when the field name holds no marker, and does not when it
\* holds one.
CexC7_FailsIffNoMarker ==
    (LabelDone /\ NumLabels >= 1 /\ IsAnnot(1) /\ Len(files[1].names) >= 1) =>
        (err = "ValueError" <=> ~FieldHasMarker)

\* C7 (amended): the call fails with ValueError exactly when no marker is
\* found in vertex_data (inside a string, or as a whole element of a list)
\* and some annotation file with a non-empty region is reached, all files
\* before it having a recognised extension.  An annotation file whose
\* regions are all empty raises nothing, whatever vertex_data is.
ThmC7_FailsIffNoMarkerAndRegion ==
    LabelDone =>
        (err = "ValueError" <=>
            /\ ~MarkerFound
            /\ \E i \in 1..NumLabels :
                /\ IsAnnot(i)
                /\ NonEmptyRegions(i) # {}
                /\ \A k \in 1..(i - 1) : KnownExt(k))

\* An annotation file without any vertex in a region is processed with a
\* field name that holds no marker, and the call returns normally.
WitC7_EmptyAnnotNoError ==
    /\ LabelDone
    /\ NumLabels = 1
    /\ IsAnnot(1)
    /\ Len(files[1].names) = 2
    /\ NonEmptyRegions(1) = {}
    /\ ~FieldHasMarker
    /\ err = "none"

\* The columns file i writes, first to last, when the call gets through it.
ExpectedColumns(i) ==
    IF files[i].ext = ".label"
    THEN <<[name |-> [prefix |-> "", hemi |-> "", stem |-> i, region |-> -1],
            value |-> [v \in 1..MaxVertex |-> IF (v - 1) \in files[i].roi_vertex THEN 1 ELSE 0]]>>
    ELSE IF files[i].ext = ".annot"
    THEN [k \in 1..Cardinality(NonEmptyRegions(i)) |->
            LET r == Kth(NonEmptyRegions(i), k) IN
            [name |-> [prefix |-> "", hemi |-> IF LeftFound THEN "lh" ELSE "rh",
                       stem |-> -1, region |-> files[i].names[r + 1]],
             value |-> [v \in DOMAIN files[i].labels |->
                            IF files[i].labels[v] = r THEN 1 ELSE 0]]]
    ELSE <<>>

\* The container after the columns of files 1..n were written in order (a
\* column written twice keeps its place and takes the later value).
RECURSIVE ApplyColumns(_, _)
ApplyColumns(md, cols) ==
    IF cols = <<>> THEN md
    ELSE ApplyColumns(AddMetadata(md, Head(cols).name, Head(cols).value), Tail(cols))

RECURSIVE ExpectedMetadata(_)
ExpectedMetadata(n) ==
    IF n = 0 THEN <<>> ELSE ApplyColumns(ExpectedMetadata(n - 1), ExpectedColumns(n))

\* C8: with a valid hemisphere, a call that returns has written, for every
\* annotation file, one column per region that has a vertex, in region
\* order, and none for a region without vertices; an empty region raises no
\* error and the regions after it are still written.
ThmC8_ColumnsAreNonEmptyRegions ==
    (LabelDone /\ MarkerFound /\ \A i \in 1..NumLabels : KnownExt(i)) =>
        /\ err = "none"
        /\ metadata = ExpectedMetadata(NumLabels)
        /\ (NumLabels = 1 /\ IsAnnot(1)) =>
            /\ Len(metadata) = Cardinality(NonEmptyRegions(1))
            /\ \A c \in DOMAIN metadata :
                /\ metadata[c].name.region \in NonEmptyRegions(1)
                /\ \A d \in DOMAIN metadata :
                    c < d => metadata[c].name.region < metadata[d].name.region

\* One annotation file with regions 0 and 1, region 0 without a vertex: only
\* the column of region 1 is written.
WitC8_SkipsEmptyRegion ==
    /\ LabelDone
    /\ err = "none"
    /\ NumLabels = 1
    /\ IsAnnot(1)
    /\ Len(files[1].names) = 2
    /\ NonEmptyRegions(1) = {1}
    /\ Len(metadata) = 1
    /\ metadata[1].name.region = 1
    /\ metadata[1].name.hemi = "rh"

----------------------------------------------------------------------------
(* Properties of both orchestration calls, under Spec.                    *)

\* C9 (as claimed): a call that fails has added none of its columns: the
\* container's metadata is what it was before the call (empty).
CexC9_FailureWritesNothing ==
    (pc = "done" /\ err # "none") => metadata = <<>>

\* The first file add_roilabel fails on: an unrecognised extension, or an
\* annotation file with a non-empty region when no marker is found.
FailsAt(i) ==
    \/ ~KnownExt(i)
    \/ IsAnnot(i) /\ NonEmptyRegions(i) # {} /\ ~MarkerFound

\* C9 (amended): a failing call returns nothing.  A failing add_roimask has
\* written no column (every error precedes its write loop).  A failing
\* add_roilabel fails on its first bad file and keeps in the container the
\* columns of all files before that one, and none of that file or of later
\* files.
ThmC9_FailureKeepsEarlierColumns ==
    (pc = "done" /\ err # "none") =>
        /\ call = "add_roimask" => (metadata = <<>> /\ roi_flag = <<>>)
        /\ call = "add_roilabel" =>
            \E i \in 1..NumLabels :
                /\ FailsAt(i)
                /\ \A k \in 1..(i - 1) : ~FailsAt(k)
                /\ metadata = ExpectedMetadata(i - 1)

\* add_roilabel on a label file followed by a file of unknown extension: the
\* call raises TypeError and the label's column stays in the container.
WitC9_PartialColumns ==
    /\ LabelDone
    /\ err = "TypeError"
    /\ NumLabels = 2
    /\ files[1].ext = ".label"
    /\ Len(metadata) = 1

====
